---- MODULE Spec2Model ----
(***************************************************************************)
(* State machine of src/src/onion/https.c: the TLS listen point of the     *)
(* onion HTTP server.  A listen point is built by onion_https_new, torn    *)
(* down by onion_https_free; a connection is accepted with a handshake     *)
(* loop (onion_https_accept_connection) and then read, written and closed. *)
(*                                                                         *)
(* GnuTLS is an external engine.  Its calls are modelled by their          *)
(* documented contract: gnutls_global_init / gnutls_global_deinit keep a   *)
(* process-wide use counter (the library is released when the counter      *)
(* returns to zero), gnutls_handshake returns 0 or a negative code, and    *)
(* gnutls_error_is_fatal classifies a code.                                *)
(***************************************************************************)
EXTENDS Integers, FiniteSets, Sequences, TLC

\* ------------------------------------------------------------------ bounds
MaxLP == 2          \* listen points built in one process
MaxConn == 2        \* connections accepted in one process
MaxClose == 2       \* close() calls counted on one connection

LPs == 1..MaxLP
Conns == 1..MaxConn

\* ------------------------------------------------- certificate type (type)
\* onion_ssl_certificate_type lives in a header that is not part of src/.
O_SSL_CERTIFICATE_KEY == 1
O_SSL_CERTIFICATE_CRL == 2
O_SSL_CERTIFICATE_TRUST == 3
O_SSL_CERTIFICATE_PKCS12 == 4
O_SSL_DER == 256

\* The values of type the model calls onion_https_new with: the four modes,
\* two modes the switch does not know (0 and 5), each with and without the
\* DER bit.
Types == { m + d * O_SSL_DER : m \in 0..5, d \in 0..1 }

\* type&0x0FF
Mode(type) == type % 256

\* (type&O_SSL_DER) ? GNUTLS_X509_FMT_DER : GNUTLS_X509_FMT_PEM
Format(type) == IF (type \div O_SSL_DER) % 2 = 1 THEN "DER" ELSE "PEM"

\* The switch of onion_https_new: the loader a mode selects, "none" for the
\* default branch.
Loader(mode) ==
  CASE mode = O_SSL_CERTIFICATE_CRL -> "crl_file"
    [] mode = O_SSL_CERTIFICATE_KEY -> "key_file"
    [] mode = O_SSL_CERTIFICATE_TRUST -> "trust_file"
    [] mode = O_SSL_CERTIFICATE_PKCS12 -> "pkcs12_file"
    [] OTHER -> "none"

\* The loaders that read one variadic argument with va_arg.
ReadsExtra(loader) == loader \in {"key_file", "pkcs12_file"}

\* What the engine's load call returns: a negative code for a file (or key,
\* or password) it cannot use, otherwise the number of items it processed
\* (crl, trust) or 0 (key, pkcs12).
EngineLoad(loader, filesOk) ==
  IF ~filesOk THEN -64
  ELSE IF loader \in {"crl_file", "trust_file"} THEN 1 ELSE 0

\* r after the switch: the loader's result, -1 in the default branch.
SwitchResult(loader, filesOk) ==
  IF loader = "none" THEN -1 ELSE EngineLoad(loader, filesOk)

\* if (r<0)
ConfigFailed(r) == r < 0

\* ------------------------------------------------------- global crypto state
\* gnutls_global_init: increments the library's use counter.
gnutls_global_init(n) == n + 1

\* gnutls_global_deinit: decrements it; the library is released at zero.
gnutls_global_deinit(n) == n - 1

\* A construction that takes a use of the library only when none is held.
NewGlobalInit_once(n) == IF n > 0 THEN n ELSE gnutls_global_init(n)

\* A construction that never takes a use of the library.
NewGlobalInit_skip(n) == n

\* Line 82 of onion_https_new: gnutls_global_init () on every construction.
NewGlobalInit(n) == gnutls_global_init(n)

\* A teardown that gives its use of the library back whatever the flag says.
FreeDeinits_always(noDeinitFlag) == TRUE

\* if (!(op->server->flags&O_SSL_NO_DEINIT)) gnutls_global_deinit();
FreeDeinits(noDeinitFlag) == ~noDeinitFlag

\* --------------------------------------------------------- handshake codes
\* The results gnutls_handshake is driven with: success, two codes the engine
\* classifies as non-fatal (again, interrupted) and two it classifies as
\* fatal (fatal alert received, premature termination).
HandshakeResults == {0, -28, -52, -12, -110}

\* gnutls_error_is_fatal: 0 for a non-negative value and for the non-fatal
\* codes (again, interrupted, warning alert, rehandshake), 1 otherwise.
gnutls_error_is_fatal(e) ==
  IF e >= 0 \/ e \in {-28, -52, -16, -37} THEN 0 ELSE 1

\* A loop that retries on every negative result.
LoopContinues_all(ret) == ret < 0

\* while (ret < 0 && gnutls_error_is_fatal (ret) == 0)
LoopContinues(ret) == ret < 0 /\ gnutls_error_is_fatal(ret) = 0

\* if (ret<0)  -- could not handshake
HandshakeFailed(ret) == ret < 0

\* -------------------------------------------------------------------- state
VARIABLES
  global_init,   \* use counter of the process-wide crypto library
  thread_cbs,    \* libgcrypt has the pthread callbacks (built with HAVE_PTHREADS)
  crashed,       \* the process was ended by a memory fault
  op,            \* op[l]: listen point l and the onion_https it owns
  con,           \* con[c]: connection c, its accept locals and its channel
  sessions,      \* TLS session handles allocated by gnutls_init
  requests,      \* request objects allocated by onion_request_new
  channels,      \* onion_https_connection blocks allocated by malloc
  last           \* the last call: its arguments, what it used, its result

vars == <<global_init, thread_cbs, crashed, op, con, sessions, requests, channels, last>>

\* A listen point slot nothing was built in: what onion_listen_point_new
\* hands back has no server attached and no listening descriptor.
NoOp ==
  [state |-> "none", https |-> "none", x509_cred |-> "none",
   dh_params |-> "none", priority_cache |-> "none",
   server |-> "NULL", listenfd |-> "unset",
   credFrees |-> 0, dhFrees |-> 0, prioFrees |-> 0]

NoCon ==
  [pc |-> "none", lp |-> 0, fd |-> "none", session |-> 0,
   user_data |-> 0, d_req |-> 0, d_session |-> 0, attached |-> FALSE,
   closeCalls |-> 0, byes |-> 0, sessDeinits |-> 0, reqFrees |-> 0,
   chanFrees |-> 0, sockCloses |-> 0, conFrees |-> 0]

NoCall ==
  [op |-> "none", id |-> 0, type |-> 0, nExtra |-> 0, filesOk |-> FALSE,
   loader |-> "none", fmt |-> "none", unknown |-> FALSE, r |-> 0,
   result |-> "none", unset |-> {}, sess |-> {}, req |-> {},
   engine |-> 0, ret |-> 0, calls |-> 0, steps |-> <<>>]

Init ==
  /\ global_init = 0
  /\ thread_cbs = FALSE
  /\ crashed = FALSE
  /\ op = [l \in LPs |-> NoOp]
  /\ con = [c \in Conns |-> NoCon]
  /\ sessions = {}
  /\ requests = {}
  /\ channels = {}
  /\ last = NoCall

\* ------------------------------------------------------------ listen points
\* What reading op->server->flags gives.  With a server attached it is that
\* server's O_SSL_NO_DEINIT flag.  With none attached the read goes through
\* a pointer nothing has set: ub names what the build makes of it, a memory
\* fault or either value of the flag.
FlagsRead(o, ub) ==
  IF o.server = "NULL" THEN ub
  ELSE IF o.server = "no_deinit" THEN "no_deinit" ELSE "deinit"

\* The body of onion_https_free on listen point o with use counter g, where
\* fl is what the read of op->server->flags gave.  The three releases come
\* first; a fault at the flags read ends the process before the rest.
\* unset: the fields of op the body used although nothing had set them.
HttpsFree(o, g, fl) ==
  LET released == [o EXCEPT !.x509_cred = "freed", !.credFrees = @ + 1,
                            !.dh_params = "freed", !.dhFrees = @ + 1,
                            !.priority_cache = "freed", !.prioFrees = @ + 1]
      noServer == IF o.server = "NULL" THEN {"server"} ELSE {}
      noFd == IF o.listenfd = "unset" THEN {"listenfd"} ELSE {}
  IN IF fl = "fault"
     THEN [o |-> [released EXCEPT !.state = "fault"], g |-> g,
           fault |-> TRUE, unset |-> noServer]
     ELSE [o |-> [released EXCEPT !.state = "freed", !.https = "freed",
                                  !.listenfd = "closed"],
           g |-> IF FreeDeinits(fl = "no_deinit")
                 THEN gnutls_global_deinit(g) ELSE g,
           fault |-> FALSE, unset |-> noServer \cup noFd]

\* onion_listen_point_free: runs the listen point's free hook, which
\* onion_https_new set to onion_https_free.
onion_listen_point_free(o, g, fl) == HttpsFree(o, g, fl)

\* The listen point after lines 63-87 of onion_https_new: the onion_https
\* block, the credential store, the DH parameters and the priority policy
\* are allocated; no server is attached.
Built ==
  [NoOp EXCEPT !.state = "live", !.https = "alloc", !.x509_cred = "alloc",
               !.dh_params = "alloc", !.priority_cache = "alloc"]

\* The calls onion_https_new makes into libgcrypt and GnuTLS, lines 75-112,
\* in the order it makes them; the last is the loader the switch selected.
NewSteps(loader) ==
  <<"gcry_thread_cbs", "global_init", "allocate_credentials",
    "dh_params_init", "dh_params_generate2", "set_dh_params",
    "priority_init">> \o (IF loader = "none" THEN <<>> ELSE <<loader>>)

\* onion_https_new(type, filename, ...) building listen point l.
\*   nExtra   how many variadic arguments the caller passed
\*   filesOk  the engine can use the files (and password) the caller named
\*   va       what va_arg yields when the loader reads an argument that was
\*            not passed: a pointer the engine faults on, or a string it can
\*            or cannot use
\*   ub       what the read of op->server->flags yields on the failure path
onion_https_new(l, type, nExtra, filesOk, va, ub) ==
  LET loader == Loader(Mode(type))
      noArg == ReadsExtra(loader) /\ nExtra = 0
      usable == IF noArg THEN filesOk /\ va = "usable" ELSE filesOk
      r == SwitchResult(loader, usable)
      g1 == NewGlobalInit(global_init)
      call == [NoCall EXCEPT !.op = "new", !.id = l, !.type = type,
                 !.nExtra = nExtra, !.filesOk = filesOk, !.loader = loader,
                 !.fmt = IF loader = "none" THEN "none" ELSE Format(type),
                 !.unknown = (loader = "none"), !.r = r,
                 !.steps = NewSteps(loader)]
      fr == onion_listen_point_free(Built, g1, FlagsRead(Built, ub))
  IN /\ ~crashed
     /\ op[l].state = "none"
     /\ ~noArg => va = "usable"
     /\ IF noArg /\ va = "fault"
        THEN /\ ub = "deinit"
             /\ op' = [op EXCEPT ![l] = [Built EXCEPT !.state = "fault"]]
             /\ global_init' = g1
             /\ crashed' = TRUE
             /\ last' = [call EXCEPT !.result = "fault", !.r = 0]
        ELSE IF ConfigFailed(r)
        THEN /\ op' = [op EXCEPT ![l] =
                    IF fr.fault THEN fr.o ELSE [fr.o EXCEPT !.state = "null"]]
             /\ global_init' = fr.g
             /\ crashed' = fr.fault
             /\ last' = [call EXCEPT !.unset = fr.unset,
                           !.result = IF fr.fault THEN "fault" ELSE "NULL"]
        ELSE /\ ub = "deinit"
             /\ op' = [op EXCEPT ![l] = Built]
             /\ global_init' = g1
             /\ crashed' = FALSE
             /\ last' = [call EXCEPT !.result = "op"]
     /\ thread_cbs' = TRUE
     /\ UNCHANGED <<con, sessions, requests, channels>>

\* The server takes the listen point (onion_add_listen_point) and starts to
\* listen on it: op->server and op->listenfd are set.  flag: whether that
\* server has O_SSL_NO_DEINIT.
onion_add_listen_point(l, flag) ==
  /\ ~crashed
  /\ op[l].state = "live"
  /\ op[l].server = "NULL"
  /\ op' = [op EXCEPT ![l].server = flag, ![l].listenfd = "open"]
  /\ last' = [NoCall EXCEPT !.op = "add", !.id = l]
  /\ UNCHANGED <<global_init, thread_cbs, crashed, con, sessions, requests, channels>>

\* A connection of listen point l that still runs its handshake or still
\* holds its channel.
Active(l) ==
  { c \in Conns : con[c].lp = l
                  /\ (con[c].pc = "handshake" \/ con[c].user_data # 0) }

\* onion_https_free(op) on a live listen point l, once its connections are
\* done.  ub as in onion_https_new.
onion_https_free(l, ub) ==
  LET fr == HttpsFree(op[l], global_init, FlagsRead(op[l], ub))
  IN /\ ~crashed
     /\ op[l].state = "live"
     /\ Active(l) = {}
     /\ op[l].server # "NULL" => ub = "deinit"
     /\ op' = [op EXCEPT ![l] = fr.o]
     /\ global_init' = fr.g
     /\ crashed' = fr.fault
     /\ last' = [NoCall EXCEPT !.op = "free", !.id = l, !.unset = fr.unset,
                   !.result = IF fr.fault THEN "fault" ELSE "void"]
     /\ UNCHANGED <<thread_cbs, con, sessions, requests, channels>>

\* -------------------------------------------------------------- connections
IOLen == 2          \* len of the buffers read and write are called with

\* What gnutls_record_recv can return for a buffer of IOLen bytes: an error
\* code, 0 when the peer has shut the session down, or a byte count.
RecvResults == {-9, 0} \cup 1..IOLen

\* What gnutls_record_send can return for IOLen bytes: an error code or the
\* number of bytes it took, which may be short.
SendResults == {-9} \cup 1..IOLen

\* What gnutls_bye can return.
ByeResults == {0, -28, -10}

\* The block an allocator hands out: one that is not in use.  Handles are
\* only ever compared for equality, so the lowest free one stands for any.
Fresh(allocated) == CHOOSE h \in 1..(MaxConn + 1) :
                      h \notin allocated /\ \A g \in 1..(h - 1) : g \in allocated

\* onion_https_accept_connection, lines 149-167, for connection c on listen
\* point l: the raw connection comes from onion_connection_new_from_socket
\* with no user_data, and gnutls_init allocates a session for it.
accept_begin(c, l) ==
  LET h == Fresh(sessions) IN
  /\ ~crashed
  /\ con[c].pc = "none"
  /\ op[l].state = "live"
  /\ op[l].server # "NULL"
  /\ con' = [con EXCEPT ![c] = [NoCon EXCEPT !.pc = "handshake", !.lp = l,
                                  !.fd = "open", !.session = h]]
  /\ sessions' = sessions \cup {h}
  /\ last' = [NoCall EXCEPT !.op = "accept", !.id = c, !.sess = {h}]
  /\ UNCHANGED <<global_init, thread_cbs, crashed, op, requests, channels>>

\* A failure path that returns NULL without onion_connection_free.
AcceptReject_leak(k) == [k EXCEPT !.pc = "rejected", !.session = 0]

\* Connection k after lines 172-176: the raw connection is released with
\* onion_connection_free (its block is gone, and with it the pointer to its
\* listen point) and accept returns NULL; the local session goes out of
\* scope, the session it names stays allocated.
AcceptReject(k) ==
  [k EXCEPT !.pc = "rejected", !.fd = "closed", !.conFrees = @ + 1,
            !.lp = 0, !.session = 0]

\* A success path that keeps the session in storage shared by all accepts.
AcceptAttach_shared(k, d, q) ==
  [k EXCEPT !.pc = "established", !.user_data = d, !.d_req = q,
            !.d_session = 1, !.session = 0, !.attached = TRUE]

\* A success path that forgets line 180 and leaves the channel's session null.
AcceptAttach_null(k, d, q) ==
  [k EXCEPT !.pc = "established", !.user_data = d, !.d_req = q,
            !.d_session = 0, !.session = 0, !.attached = TRUE]

\* Connection k after lines 178-184: a channel block d holding request q and
\* the session of the handshake is attached as user_data; accept returns oc
\* and its local session goes out of scope.
AcceptAttach(k, d, q) ==
  [k EXCEPT !.pc = "established", !.user_data = d, !.d_req = q,
            !.d_session = k.session, !.session = 0, !.attached = TRUE]

\* One turn of the do-while of lines 169-171 on connection c, gnutls_handshake
\* returning e, and, when the loop ends, lines 172-184 with the blocks malloc
\* and onion_request_new hand out on success.
handshake_step(c, e) ==
  LET d == Fresh(channels)
      q == Fresh(requests)
  IN /\ ~crashed
     /\ con[c].pc = "handshake"
     /\ IF LoopContinues(e)
        THEN UNCHANGED <<con, requests, channels>>
        ELSE IF HandshakeFailed(e)
        THEN /\ con' = [con EXCEPT ![c] = AcceptReject(con[c])]
             /\ UNCHANGED <<requests, channels>>
        ELSE /\ con' = [con EXCEPT ![c] = AcceptAttach(con[c], d, q)]
             /\ requests' = requests \cup {q}
             /\ channels' = channels \cup {d}
     /\ last' = [NoCall EXCEPT !.op = "handshake", !.id = c,
                   !.sess = {con[c].session}, !.engine = e, !.calls = 1,
                   !.req = IF LoopContinues(e) \/ HandshakeFailed(e)
                           THEN {} ELSE {q},
                   !.result = IF LoopContinues(e) THEN "loop"
                              ELSE IF HandshakeFailed(e) THEN "NULL"
                              ELSE "oc"]
     /\ UNCHANGED <<global_init, thread_cbs, crashed, op, sessions>>

\* A read that reports an engine error as end of stream.
ReadReturn_zero(engine) == IF engine < 0 THEN 0 ELSE engine

\* ssize_t ret=gnutls_record_recv(...); ...; return ret;
ReadReturn(engine) == engine

\* A write that reports every accepted send as complete.
WriteReturn_full(engine) == IF engine >= 0 THEN IOLen ELSE engine

\* return gnutls_record_send(user_data->session, data, len);
WriteReturn(engine) == engine

\* onion_https_read on connection c, gnutls_record_recv returning e.  After
\* close has cleared con->user_data the load of user_data->session goes
\* through a null pointer, which ends the process.
onion_https_read(c, e) ==
  /\ ~crashed
  /\ con[c].pc = "established"
  /\ IF con[c].user_data = 0
     THEN /\ e = 0
          /\ crashed' = TRUE
          /\ last' = [NoCall EXCEPT !.op = "read", !.id = c,
                        !.unset = {"user_data"}, !.result = "fault"]
     ELSE /\ crashed' = FALSE
          /\ last' = [NoCall EXCEPT !.op = "read", !.id = c,
                        !.sess = {con[c].d_session}, !.engine = e,
                        !.calls = 1, !.steps = <<"record_recv">>,
                        !.ret = ReadReturn(e), !.result = "ret"]
  /\ UNCHANGED <<global_init, thread_cbs, op, con, sessions, requests, channels>>

\* onion_https_write on connection c, gnutls_record_send returning e.
onion_https_write(c, e) ==
  /\ ~crashed
  /\ con[c].pc = "established"
  /\ IF con[c].user_data = 0
     THEN /\ e = 1
          /\ crashed' = TRUE
          /\ last' = [NoCall EXCEPT !.op = "write", !.id = c,
                        !.unset = {"user_data"}, !.result = "fault"]
     ELSE /\ crashed' = FALSE
          /\ last' = [NoCall EXCEPT !.op = "write", !.id = c,
                        !.sess = {con[c].d_session}, !.engine = e,
                        !.calls = 1, !.steps = <<"record_send">>,
                        !.ret = WriteReturn(e), !.result = "ret"]
  /\ UNCHANGED <<global_init, thread_cbs, op, con, sessions, requests, channels>>

\* A close that leaves con->user_data set after freeing the channel.
CloseChannel_keep(k, b) ==
  IF k.user_data # 0
  THEN [k EXCEPT !.byes = @ + 1,
                 !.sessDeinits = IF k.d_session # 0 THEN @ + 1 ELSE @,
                 !.reqFrees = @ + 1, !.chanFrees = @ + 1]
  ELSE k

\* A close that gives up when the graceful shutdown fails.
CloseChannel_gated(k, b) ==
  IF k.user_data # 0
  THEN IF b < 0
       THEN [k EXCEPT !.byes = @ + 1]
       ELSE [k EXCEPT !.byes = @ + 1,
                      !.sessDeinits = IF k.d_session # 0 THEN @ + 1 ELSE @,
                      !.reqFrees = @ + 1, !.chanFrees = @ + 1,
                      !.user_data = 0, !.d_req = 0, !.d_session = 0]
  ELSE k

\* Lines 204-219 of onion_https_close on connection k, gnutls_bye returning
\* b: with a channel attached, the shutdown is attempted and its result
\* dropped, the session is released if it is not null, the request and the
\* channel block are freed and user_data is cleared.
CloseChannel(k, b) ==
  IF k.user_data # 0
  THEN [k EXCEPT !.byes = @ + 1,
                 !.sessDeinits = IF k.d_session # 0 THEN @ + 1 ELSE @,
                 !.reqFrees = @ + 1, !.chanFrees = @ + 1,
                 !.user_data = 0, !.d_req = 0, !.d_session = 0]
  ELSE k

\* A close that closes the socket before it tears the channel down.
CloseSteps_socketFirst(k) ==
  <<"close_socket">>
  \o (IF k.user_data # 0
      THEN <<"bye">> \o (IF k.d_session # 0 THEN <<"deinit">> ELSE <<>>)
           \o <<"request_free", "free_channel", "clear_user_data">>
      ELSE <<>>)

\* The calls of onion_https_close on connection k, lines 204-220, in the
\* order it makes them.
CloseSteps(k) ==
  (IF k.user_data # 0
   THEN <<"bye">> \o (IF k.d_session # 0 THEN <<"deinit">> ELSE <<>>)
        \o <<"request_free", "free_channel", "clear_user_data">>
   ELSE <<>>)
  \o <<"close_socket">>

\* onion_connection_close_socket(con), line 220.
CloseSocket(k) == [k EXCEPT !.fd = "closed", !.sockCloses = @ + 1]

\* A close that also frees the credential store of the listen point the
\* connection came through.
onion_https_close_cred(c, b) ==
  LET k == con[c]
      live == k.user_data # 0
      k1 == CloseChannel(k, b)
  IN /\ ~crashed
     /\ k.pc = "established"
     /\ k.closeCalls < MaxClose
     /\ ~live => b = 0
     /\ con' = [con EXCEPT ![c] = [CloseSocket(k1) EXCEPT !.closeCalls = @ + 1]]
     /\ sessions' = IF k1.sessDeinits > k.sessDeinits
                    THEN sessions \ {k.d_session} ELSE sessions
     /\ requests' = IF k1.reqFrees > k.reqFrees
                    THEN requests \ {k.d_req} ELSE requests
     /\ channels' = IF k1.chanFrees > k.chanFrees
                    THEN channels \ {k.user_data} ELSE channels
     /\ last' = [NoCall EXCEPT !.op = "close", !.id = c,
                   !.sess = IF live THEN {k.d_session} ELSE {},
                   !.req = IF live THEN {k.d_req} ELSE {},
                   !.engine = b, !.result = "void",
                   !.calls = IF live THEN 1 ELSE 0, !.steps = CloseSteps(k)]
     /\ op' = IF k.lp \in LPs
              THEN [op EXCEPT ![k.lp].x509_cred = "freed"] ELSE op
     /\ UNCHANGED <<global_init, thread_cbs, crashed>>

\* onion_https_close on connection c, gnutls_bye returning b.  The session,
\* the request and the channel block leave the allocated sets when the body
\* released them.
onion_https_close(c, b) ==
  LET k == con[c]
      live == k.user_data # 0
      k1 == CloseChannel(k, b)
  IN /\ ~crashed
     /\ k.pc = "established"
     /\ k.closeCalls < MaxClose
     /\ ~live => b = 0
     /\ con' = [con EXCEPT ![c] = [CloseSocket(k1) EXCEPT !.closeCalls = @ + 1]]
     /\ sessions' = IF k1.sessDeinits > k.sessDeinits
                    THEN sessions \ {k.d_session} ELSE sessions
     /\ requests' = IF k1.reqFrees > k.reqFrees
                    THEN requests \ {k.d_req} ELSE requests
     /\ channels' = IF k1.chanFrees > k.chanFrees
                    THEN channels \ {k.user_data} ELSE channels
     /\ last' = [NoCall EXCEPT !.op = "close", !.id = c,
                   !.sess = IF live THEN {k.d_session} ELSE {},
                   !.req = IF live THEN {k.d_req} ELSE {},
                   !.engine = b, !.result = "void",
                   !.calls = IF live THEN 1 ELSE 0, !.steps = CloseSteps(k)]
     /\ UNCHANGED <<global_init, thread_cbs, crashed, op>>

\* ------------------------------------------------------------ specification
\* The operations on listen points.
NextLP ==
  \/ \E l \in LPs, type \in Types, nExtra \in 0..1, filesOk \in BOOLEAN,
        va \in {"fault", "usable", "unusable"},
        ub \in {"fault", "no_deinit", "deinit"} :
       onion_https_new(l, type, nExtra, filesOk, va, ub)
  \/ \E l \in LPs, flag \in {"plain", "no_deinit"} :
       onion_add_listen_point(l, flag)
  \/ \E l \in LPs, ub \in {"fault", "no_deinit", "deinit"} :
       onion_https_free(l, ub)

\* The operations on connections.
NextConn ==
  \/ \E c \in Conns, l \in LPs : accept_begin(c, l)
  \/ \E c \in Conns, e \in HandshakeResults : handshake_step(c, e)
  \/ \E c \in Conns, e \in RecvResults : onion_https_read(c, e)
  \/ \E c \in Conns, e \in SendResults : onion_https_write(c, e)
  \/ \E c \in Conns, b \in ByeResults : onion_https_close(c, b)

Next == NextLP \/ NextConn

\* The whole program.
Spec == Init /\ [][Next]_vars

\* The life of the listen points alone: no connection is accepted.
SpecLP == Init /\ [][NextLP]_vars

\* A server that listens on one listen point: listen point 1 was built by
\* onion_https_new and added to a server that leaves O_SSL_NO_DEINIT unset.
InitConn ==
  /\ global_init = 1
  /\ thread_cbs = TRUE
  /\ crashed = FALSE
  /\ op = [l \in LPs |-> IF l = 1
                         THEN [Built EXCEPT !.server = "plain",
                                            !.listenfd = "open"]
                         ELSE NoOp]
  /\ con = [c \in Conns |-> NoCon]
  /\ sessions = {}
  /\ requests = {}
  /\ channels = {}
  /\ last = NoCall

\* The life of the connections of a listening server.
SpecConn == InitConn /\ [][NextConn]_vars

\* ------------------------------------------------------------------- claims
ConnOps == {"accept", "handshake", "read", "write", "close"}

\* The engine classified e as a fatal error.
Fatal(e) == e < 0 /\ gnutls_error_is_fatal(e) = 1

\* C1: when the handshake of accept ends with a fatal error, the raw
\* connection is released exactly once, accept returns NULL and no channel
\* was ever attached to the connection.
C1_FatalHandshakeReleasesConnection ==
  \A c \in Conns :
    /\ (last.op = "handshake" /\ last.id = c /\ Fatal(last.engine))
         => (con[c].pc = "rejected" /\ last.result = "NULL")
    /\ con[c].pc = "rejected"
         => /\ con[c].conFrees = 1
            /\ con[c].fd = "closed"
            /\ con[c].user_data = 0
            /\ ~con[c].attached

C1_Witness ==
  \E c \in Conns : /\ con[c].pc = "rejected"
                   /\ last.op = "handshake" /\ last.id = c
                   /\ Fatal(last.engine)

\* C2: however many times close() is called on an established connection,
\* the session is deinitialized once, the request is freed once and the
\* channel block is freed once; a close after the first finds user_data
\* cleared, touches no session or request and only closes the socket.
C2_CloseIsIdempotent ==
  \A c \in Conns :
    /\ con[c].closeCalls >= 1
         => /\ con[c].byes = 1
            /\ con[c].sessDeinits = 1
            /\ con[c].reqFrees = 1
            /\ con[c].chanFrees = 1
            /\ con[c].user_data = 0
            /\ con[c].sockCloses = con[c].closeCalls
    /\ (last.op = "close" /\ last.id = c /\ con[c].closeCalls >= 2)
         => (last.sess = {} /\ last.req = {})

C2_Witness ==
  \E c \in Conns : /\ con[c].closeCalls >= 2
                   /\ last.op = "close" /\ last.id = c

\* The listen points onion_https_new returned and nothing has torn down.
LiveLPs == { l \in LPs : op[l].state = "live" }

C5_CloseIgnoresByeResult ==
  (last.op = "close" /\ last.sess # {} /\ last.engine \in ByeResults)
    => LET k == con[last.id]
       IN /\ k.byes = 1
          /\ k.sessDeinits = 1
          /\ k.reqFrees = 1
          /\ k.chanFrees = 1
          /\ k.user_data = 0
          /\ k.fd = "closed"
          /\ k.sockCloses = k.closeCalls
          /\ last.sess \cap sessions = {}
          /\ last.req \cap requests = {}

C5_Witness ==
  /\ last.op = "close" /\ last.sess # {} /\ last.engine < 0
  /\ con[last.id].fd = "closed"

\* The session and the request connection c owns: the session of its
\* handshake, then of its channel until close releases it, and the request
\* of its channel.
OwnedSessions(c) ==
  IF con[c].pc = "handshake" THEN {con[c].session}
  ELSE IF con[c].user_data # 0 THEN {con[c].d_session} ELSE {}

OwnedRequests(c) == IF con[c].user_data # 0 THEN {con[c].d_req} ELSE {}

C6_State ==
  /\ (last.op = "handshake" /\ last.result = "oc")
       => (con[last.id].d_session \in last.sess /\ con[last.id].d_session # 0)
  /\ \A c, d \in Conns :
       c # d => /\ OwnedSessions(c) \cap OwnedSessions(d) = {}
                /\ OwnedRequests(c) \cap OwnedRequests(d) = {}
                /\ (con[c].user_data # 0 => con[c].user_data # con[d].user_data)
  /\ last.op \in ConnOps
       => \A d \in Conns \ {last.id} :
            /\ last.sess \cap OwnedSessions(d) = {}
            /\ last.req \cap OwnedRequests(d) = {}

\* C6: connections accepted through the same listen point hold distinct
\* sessions, requests and channels, each channel holds the session of its own
\* handshake, and a step on one connection uses and changes no session,
\* request or channel of another.
C6_NoCrossConnectionInterference ==
  [][ /\ C6_State'
      /\ \A d \in Conns :
           (last'.op \in ConnOps /\ last'.id = d) \/ con'[d] = con[d] ]_vars

C6_Witness ==
  \E c, d \in Conns :
    /\ c # d /\ con[c].lp = con[d].lp
    /\ con[c].user_data # 0 /\ con[d].user_data # 0
    /\ last.op \in {"read", "write"} /\ last.id = c

\* C7: the negotiation step runs only in Handshaking; it is repeated exactly
\* when its result is negative and non-fatal, moves to Established exactly
\* on a non-negative result and to Failed exactly on a fatal one; Established
\* and Failed are left by no step, and accept has returned exactly there.
C7_HandshakeStateMachine ==
  [][ /\ \A c \in Conns :
           con[c].pc \in {"established", "rejected"} => con'[c].pc = con[c].pc
      /\ last'.op = "handshake"
           => LET c == last'.id
                  e == last'.engine
              IN /\ con[c].pc = "handshake"
                 /\ con'[c].pc = "handshake"
                      <=> (e < 0 /\ gnutls_error_is_fatal(e) = 0)
                 /\ con'[c].pc = "established" <=> e >= 0
                 /\ con'[c].pc = "rejected" <=> Fatal(e)
                 /\ last'.result = "loop" <=> con'[c].pc = "handshake" ]_vars

C7_Witness ==
  /\ last.op = "handshake" /\ last.result = "loop"
  /\ con[last.id].pc = "handshake"

\* C4: when certificate configuration fails in onion_https_new (unknown mode
\* or a negative load result), construction returns NULL and the credential
\* store, the DH parameters and the priority policy of that listen point have
\* each been released exactly once.
C4_ConfigFailureReleasesAll ==
  (last.op = "new" /\ (last.unknown \/ last.r < 0))
    => /\ last.result = "NULL"
       /\ op[last.id].credFrees = 1 /\ op[last.id].x509_cred = "freed"
       /\ op[last.id].dhFrees = 1 /\ op[last.id].dh_params = "freed"
       /\ op[last.id].prioFrees = 1 /\ op[last.id].priority_cache = "freed"

\* C8: no error is process-fatal: a configuration failure, a fatal handshake,
\* a read or write error and a failed graceful shutdown each end with the
\* operation returning to its caller, having used only fields that were set
\* for that listen point or connection, and the process goes on.
C8_NoErrorIsProcessFatal ==
  /\ (last.op = "new" /\ (last.unknown \/ last.r < 0))
       => (last.result = "NULL" /\ last.unset = {} /\ ~crashed)
  /\ (last.op = "handshake" /\ Fatal(last.engine))
       => (last.result = "NULL" /\ last.unset = {} /\ ~crashed)
  /\ (last.op \in {"read", "write"} /\ last.engine < 0)
       => (last.result = "ret" /\ last.unset = {} /\ ~crashed)
  /\ (last.op = "close" /\ last.engine < 0)
       => (last.result = "void" /\ last.unset = {} /\ ~crashed)

\* The call passed a number of variadic arguments its mode does not take.
WrongExtraCount(type, nExtra) ==
  LET m == type % 256
  IN \/ m \in {O_SSL_CERTIFICATE_KEY, O_SSL_CERTIFICATE_PKCS12} /\ nExtra = 0
     \/ m \in {O_SSL_CERTIFICATE_CRL, O_SSL_CERTIFICATE_TRUST} /\ nExtra = 1

\* C9: for each of the four modes, a call with the wrong number of extra
\* arguments, or with a file the engine cannot use, fails (returns NULL) and
\* leaves no credential store allocated.
C9_BadArgumentsFailConstruction ==
  (/\ last.op = "new"
   /\ last.type % 256 \in 1..4
   /\ (WrongExtraCount(last.type, last.nExtra) \/ ~last.filesOk))
    => (last.result = "NULL" /\ op[last.id].x509_cred # "alloc")

\* C10: the low 8 bits of type select exactly the loader of that mode, the
\* DER bit alone selects the format for each of the four loaders, and a mode
\* outside the four calls no loader, is logged as unknown and makes
\* onion_https_new return NULL.
C10_ModeAndFormatDispatch ==
  last.op = "new"
    => LET m == last.type % 256
           der == (last.type \div 256) % 2 = 1
       IN /\ m = O_SSL_CERTIFICATE_CRL <=> last.loader = "crl_file"
          /\ m = O_SSL_CERTIFICATE_KEY <=> last.loader = "key_file"
          /\ m = O_SSL_CERTIFICATE_TRUST <=> last.loader = "trust_file"
          /\ m = O_SSL_CERTIFICATE_PKCS12 <=> last.loader = "pkcs12_file"
          /\ m \in 1..4 => last.fmt = (IF der THEN "DER" ELSE "PEM")
          /\ m \notin 1..4
               => /\ last.loader = "none"
                  /\ last.unknown
                  /\ last.result = "NULL"

\* The state of every connection and of the three heaps.
ChannelState == <<con, sessions, requests, channels>>

\* C11: read() on a live channel makes one gnutls_record_recv call and
\* returns its result unchanged -- a byte count, 0 for the peer's shutdown or
\* the negative code; 0 stays 0, a negative result stays negative -- and
\* leaves every channel, session and request as it was.
C11_ReadReturnsEngineResult ==
  [][ (last'.op = "read" /\ last'.result = "ret")
        => /\ last'.ret = last'.engine
           /\ last'.ret = 0 <=> last'.engine = 0
           /\ last'.ret < 0 <=> last'.engine < 0
           /\ last'.calls = 1 /\ last'.steps = <<"record_recv">>
           /\ ChannelState' = ChannelState ]_vars

C11_Witness ==
  /\ last.op = "read" /\ last.result = "ret"
  /\ last.engine < 0 /\ last.ret < 0

\* C12: write() on a live channel makes one gnutls_record_send call and
\* returns its result unchanged: a count short of len goes back to the caller
\* as it is, with no second send.
C12_WriteReturnsEngineResult ==
  (last.op = "write" /\ last.result = "ret")
    => /\ last.ret = last.engine
       /\ last.calls = 1 /\ last.steps = <<"record_send">>

C12_Witness ==
  /\ last.op = "write" /\ last.result = "ret"
  /\ last.ret > 0 /\ last.ret < IOLen

\* C13: close() on a live channel makes its calls in the order graceful
\* shutdown, session release, request release, channel release and clearing
\* of user_data, and closes the socket after all of them; on a channel
\* already torn down it only closes the socket.
C13_CloseOrder ==
  last.op = "close"
    => /\ last.sess # {}
            => last.steps = <<"bye", "deinit", "request_free", "free_channel",
                              "clear_user_data", "close_socket">>
       /\ last.sess = {} => last.steps = <<"close_socket">>
       /\ \A i \in 1..Len(last.steps) :
            last.steps[i] = "close_socket" <=> i = Len(last.steps)

C13_Witness ==
  /\ last.op = "close" /\ last.sess # {}
  /\ Len(last.steps) = 6

\* C14: a connection has a channel attached exactly when its handshake
\* reached Established and close() has not run on it; an attached channel
\* holds a non-null allocated session, the one its own handshake used, and a
\* non-null allocated request.
C14_ChannelAttachedIffEstablished ==
  /\ \A c \in Conns :
       /\ con[c].user_data # 0
            <=> (con[c].pc = "established" /\ con[c].closeCalls = 0)
       /\ con[c].user_data # 0
            => /\ con[c].user_data \in channels
               /\ con[c].d_session # 0 /\ con[c].d_session \in sessions
               /\ con[c].d_req # 0 /\ con[c].d_req \in requests
  /\ (last.op = "handshake" /\ last.result = "oc")
       => /\ last.sess = {con[last.id].d_session}
          /\ last.req = {con[last.id].d_req}

C14_Witness ==
  /\ last.op = "handshake" /\ last.result = "oc"
  /\ con[last.id].user_data # 0
  /\ \E c \in Conns : con[c].pc = "established" /\ con[c].closeCalls > 0

\* C15: onion_https_free releases the credential store, the DH parameters and
\* the priority policy once each, and gives the listen point's use of the
\* crypto library back exactly when its server does not have O_SSL_NO_DEINIT;
\* with the flag set the library's use counter is left as it was, positive.
C15_TeardownReleasesAndDeinitsByFlag ==
  [][ last'.op = "free"
        => LET l == last'.id
           IN /\ op'[l].x509_cred = "freed" /\ op'[l].credFrees = 1
              /\ op'[l].dh_params = "freed" /\ op'[l].dhFrees = 1
              /\ op'[l].priority_cache = "freed" /\ op'[l].prioFrees = 1
              /\ op[l].server = "plain"
                   => global_init' = gnutls_global_deinit(global_init)
              /\ op[l].server = "no_deinit"
                   => (global_init' = global_init /\ global_init' > 0) ]_vars

C15_Witness ==
  /\ last.op = "free" /\ last.result = "void"
  /\ op[last.id].server = "no_deinit"
  /\ op[last.id].x509_cred = "freed"
  /\ global_init > 0

\* The operations that hand a session to the engine.
SessionOps == {"accept", "handshake", "read", "write", "close"}

\* Registration and initialization come first in onion_https_new, and a
\* session is only ever used with both in place.
InitPrecedesTls ==
  /\ last'.op = "new"
       => /\ last'.steps[1] = "gcry_thread_cbs"
          /\ last'.steps[2] = "global_init"
          /\ \A i \in 3..Len(last'.steps) :
               last'.steps[i] \notin {"gcry_thread_cbs", "global_init"}
  /\ (last'.op \in SessionOps /\ last'.sess # {})
       => (thread_cbs /\ global_init > 0)
  /\ (last'.op = "new" /\ last'.result = "op")
       => (thread_cbs' /\ global_init' > 0)

TlsContext(l) == <<op[l].x509_cred, op[l].dh_params, op[l].priority_cache>>

\* C17: no accept, handshake, read, write or close changes a listen point;
\* the TlsContext of a live listen point changes only when that listen point
\* is torn down.
C17_ContextReadOnlyForConnections ==
  [][ /\ last'.op \in ConnOps => op' = op
      /\ \A l \in LPs :
           (op[l].state = "live" /\ TlsContext(l)' # TlsContext(l))
             => (last'.op = "free" /\ last'.id = l) ]_vars

C17_Witness ==
  /\ last.op = "close" /\ last.sess # {}
  /\ op[1].state = "live"
  /\ TlsContext(1) = <<"alloc", "alloc", "alloc">>

\* Every connection is done: never accepted, rejected by its handshake, or
\* closed.
AllDone ==
  \A c \in Conns : \/ con[c].pc \in {"none", "rejected"}
                   \/ con[c].pc = "established" /\ con[c].closeCalls >= 1

\* C18: every session accept creates is released once -- by close() after
\* Established, before accept returns after Failed -- so a rejected accept
\* leaves its session released and, once every connection is done, no session
\* is allocated.
C18_EverySessionReleased ==
  /\ (last.op = "handshake" /\ last.result = "NULL")
       => last.sess \cap sessions = {}
  /\ \A c \in Conns : con[c].closeCalls >= 1 => con[c].sessDeinits = 1
  /\ AllDone => sessions = {}

\* C19: read and write never go through an absent user_data: a read or write
\* issued after close() returns to its caller without touching the torn-down
\* channel.
C19_NoIoThroughAbsentChannel ==
  last.op \in {"read", "write"}
    => /\ "user_data" \notin last.unset
       /\ last.result = "ret"
       /\ ~crashed

====
